---- MODULE Spec2Model ----
(***************************************************************************)
(* Credential lifecycle and signed-request dispatcher of the bunq CLI.     *)
(*                                                                         *)
(* The persistent store (conf) holds the credential fields; the commands   *)
(* `config set`, `config clear`, `auth setup`, `auth refresh` and the      *)
(* domain commands read and write it and send requests through             *)
(* bunqRequest.  Every await on the HTTP client is a step boundary: an     *)
(* action runs a command from one await to the next.                       *)
(***************************************************************************)
EXTENDS Integers, Sequences, FiniteSets, TLC

\* ------------------------------------------------------------------ bounds
\* Number of RSA key pairs that may be generated in one behaviour.
MaxKeyPairs == 2
\* Number of tokens the remote endpoint may issue in one behaviour.
MaxTokens == 4

\* ------------------------------------------------------------------ values
\* A field the store does not hold reads as undefined.
Undef == "undefined"

\* JavaScript truthiness of a string-or-undefined value.
Truthy(v) == v # Undef /\ v # ""

Procs == {"p1", "p2"}

\* PEM texts produced by the i-th call of crypto.generateKeyPairSync.
PrivNames == <<"priv1", "priv2", "priv3", "priv4", "priv5", "priv6">>
PubNames == <<"pub1", "pub2", "pub3", "pub4", "pub5", "pub6">>
\* Opaque tokens issued by the remote endpoint, all distinct.
TokNames == <<"T1", "T2", "T3", "T4", "T5", "T6", "T7", "T8">>

\* Values of the --api-key option (absent, empty, or a key).
ApiKeyArgs == {Undef, "", "k1", "k2"}
\* Server public keys an installation response may carry.
ServerKeys == {"spk1"}
\* Principal entries a session response may carry.
PrincipalKinds == {"UserPerson", "UserCompany", "UserApiKey"}
PrincipalIds == {7, 42}
\* Statuses of a rejected request; 0 stands for a transport failure without
\* any response.
FailureStatuses == {0, 401}

\* String(id) for the principal identifiers of the model.
String(id) == CASE id = 7 -> "7" [] id = 42 -> "42"

\* method.toUpperCase()
toUpperCase(m) ==
    CASE m \in {"get", "GET"} -> "GET"
      [] m \in {"post", "POST"} -> "POST"
      [] m \in {"put", "PUT"} -> "PUT"
      [] m \in {"delete", "DELETE"} -> "DELETE"

\* ------------------------------------------------------------------ state
VARIABLES
    store,       \* the persisted configuration (conf store)
    nKeys,       \* key pairs generated so far
    nTokens,     \* tokens issued by the remote endpoint so far
    pc,          \* per process: "idle" or the request it awaits
    loc,         \* per process: local variables of the running command
    sent,        \* per process: requests sent by its current/last command
    outcome,     \* per process: how its last command ended
    cmd,         \* per process: the last command started and the store then
    installedWith, \* <<token, client_public_key>> of every successful installation
    replies,     \* per process: the answers to the requests in sent, in order
    concurrent   \* whether commands of different processes may interleave

vars == <<store, nKeys, nTokens, pc, loc, sent, outcome, cmd, installedWith, replies, concurrent>>

\* store.clear(): no field is left.
EmptyStore ==
    [apiKey |-> Undef, sandbox |-> Undef, privateKey |-> Undef,
     publicKey |-> Undef, serverPublicKey |-> Undef,
     installationToken |-> Undef, sessionToken |-> Undef, userId |-> Undef]

\* getConfig(): the fields of the store as they are now.
getConfig == store

\* ------------------------------------------------------------------ JSON
JsNull == [null |-> TRUE, fields |-> <<>>]
Obj(fields) == [null |-> FALSE, fields |-> fields]
JsStr(s) == <<"s", s>>
JsArr1(s) == <<"a", s>>

\* JSON.stringify of a value: a string in quotes, or a one-element array.
StringifyValue(v) ==
    IF v[1] = "s" THEN <<"\"", v[2], "\"">>
    ELSE <<"[", "\"", v[2], "\"", "]">>

RECURSIVE StringifyFields(_)
StringifyFields(fs) ==
    IF fs = <<>> THEN <<>>
    ELSE <<"\"", fs[1][1], "\"", ":">> \o StringifyValue(fs[1][2])
         \o (IF Len(fs) > 1 THEN <<",">> ELSE <<>>)
         \o StringifyFields(Tail(fs))

\* JSON.stringify(body) for an object body.
JSONstringify(body) == <<"{">> \o StringifyFields(body.fields) \o <<"}">>

\* ------------------------------------------------------------------ signer
\* The empty string signRequest returns when signing fails.
NoSignature == <<>>

\* crypto accepts a key iff it is a PEM private key.
ValidPrivateKey_Any(k) == TRUE

ValidPrivateKey(k) == \E i \in 1..Len(PrivNames) : PrivNames[i] = k

signRequest_NeverSigns(method, endpoint, body, privateKeyPem) == NoSignature

signRequest_IgnoresBody(method, endpoint, body, privateKeyPem) ==
    IF ValidPrivateKey(privateKeyPem)
    THEN <<"SHA256-RSA", privateKeyPem, <<toUpperCase(method), " ", "/v1", endpoint, "\n\n">>>>
    ELSE NoSignature

signRequest_OneNewline(method, endpoint, body, privateKeyPem) ==
    LET bodyString == IF body.null THEN <<>> ELSE JSONstringify(body)
        dataToSign == <<toUpperCase(method), " ", "/v1", endpoint, "\n">> \o bodyString
    IN  IF ValidPrivateKey(privateKeyPem)
        THEN <<"SHA256-RSA", privateKeyPem, dataToSign>>
        ELSE NoSignature

signRequest(method, endpoint, body, privateKeyPem) ==
    LET bodyString == IF body.null THEN <<>> ELSE JSONstringify(body)
        dataToSign == <<toUpperCase(method), " ", "/v1", endpoint, "\n\n">> \o bodyString
    IN  IF ValidPrivateKey(privateKeyPem)
        THEN <<"SHA256-RSA", privateKeyPem, dataToSign>>
        ELSE NoSignature

\* ------------------------------------------------------------------ dispatcher
SelectAuthToken_SessionFirst(token, config) ==
    IF Truthy(config.sessionToken) THEN config.sessionToken
    ELSE IF Truthy(token) THEN token
    ELSE IF Truthy(config.installationToken) THEN config.installationToken
    ELSE Undef

\* token || config.sessionToken || config.installationToken
SelectAuthToken(token, config) ==
    IF Truthy(token) THEN token
    ELSE IF Truthy(config.sessionToken) THEN config.sessionToken
    ELSE IF Truthy(config.installationToken) THEN config.installationToken
    ELSE Undef

\* The bytes the HTTP client puts on the wire for `data: body`: nothing for
\* null, the JSON text for an object.
WireData(body) == IF body.null THEN <<>> ELSE JSONstringify(body)

\* The request bunqRequest hands to the HTTP client, built from the
\* configuration as it is when the call is made.  `auth` and `signature`
\* are the X-Bunq-Client-Authentication and X-Bunq-Client-Signature
\* headers (Undef / NoSignature when the header is not set); `token` and
\* `config` record the call's argument and the configuration it read.
bunqRequest(method, endpoint, body, token, config) ==
    LET authToken == SelectAuthToken(token, config)
        signature == IF Truthy(config.privateKey)
                     THEN signRequest(method, endpoint, body, config.privateKey)
                     ELSE NoSignature
    IN  [method |-> method, endpoint |-> endpoint, body |-> body,
         auth |-> IF Truthy(authToken) THEN authToken ELSE Undef,
         signature |-> signature,
         token |-> token, config |-> config]

bunqPost(endpoint, body, token, config) == bunqRequest("POST", endpoint, body, token, config)
bunqGet(endpoint, config) == bunqRequest("GET", endpoint, JsNull, Undef, config)

\* ------------------------------------------------------------------ outcomes
\* The answer to a request: the status (0: no response at all), the parsed
\* envelope of a 2xx response, and the error payload of a rejection.
Success(envelope) == [status |-> 200, envelope |-> envelope, data |-> Undef]
Failure(status) ==
    [status |-> status, envelope |-> <<>>,
     data |-> IF status = 0 THEN Undef ELSE "Error"]

NoOutcome == [kind |-> "none", status |-> 0, data |-> Undef]
Ok == [kind |-> "ok", status |-> 0, data |-> Undef]
\* error(...); process.exit(1) before anything is attempted
ConfigError == [kind |-> "config_error", status |-> 0, data |-> Undef]
\* handleError(err) for an error thrown by the command itself
ThrownError == [kind |-> "error", status |-> 0, data |-> Undef]

handleError_DropsBody(err) ==
    [kind |-> "request_error", status |-> err.status, data |-> Undef]

\* handleError(err) for a failed request: what it reports of the answer.
handleError(err) ==
    [kind |-> "request_error", status |-> err.status, data |-> err.data]

\* handleError for the request that failed with `status`.
RequestError(status) == handleError(Failure(status))

NoLocals == [apiKey |-> Undef, installationToken |-> Undef]
NoCommand == [name |-> "none", pre |-> EmptyStore, apiKeyArg |-> Undef]

\* A process may start a command when it is idle; unless commands run
\* concurrently, only p1 issues commands, one at a time.
CanStart(p) ==
    /\ pc[p] = "idle"
    /\ concurrent \/ (p = "p1" /\ \A q \in Procs : pc[q] = "idle")

Init ==
    /\ store = EmptyStore
    /\ nKeys = 0
    /\ nTokens = 0
    /\ pc = [p \in Procs |-> "idle"]
    /\ loc = [p \in Procs |-> NoLocals]
    /\ sent = [p \in Procs |-> <<>>]
    /\ outcome = [p \in Procs |-> NoOutcome]
    /\ cmd = [p \in Procs |-> NoCommand]
    /\ installedWith = {}
    /\ replies = [p \in Procs |-> <<>>]
    /\ concurrent = FALSE

\* ------------------------------------------------------------------ config
RotationDeletes_KeepsKeyPair ==
    {"sessionToken", "installationToken", "serverPublicKey", "userId"}

RotationDeletes_KeepsUserId ==
    {"sessionToken", "installationToken", "privateKey", "publicKey", "serverPublicKey"}

RotationDeletes_KeepsInstallation ==
    {"sessionToken", "privateKey", "publicKey", "serverPublicKey", "userId"}

\* The fields `config set --api-key` deletes.
RotationDeletes ==
    {"sessionToken", "installationToken", "privateKey", "publicKey",
     "serverPublicKey", "userId"}

\* The store after store.delete of each field in `fields`.
DeleteAll(s, fields) ==
    [f \in DOMAIN s |-> IF f \in fields THEN Undef ELSE s[f]]

ConfigSet_EnvResets(p, apiKey, sandbox, production) ==
    /\ CanStart(p)
    /\ LET s1 == IF Truthy(apiKey) \/ sandbox \/ production
                 THEN DeleteAll([store EXCEPT !.apiKey = IF Truthy(apiKey) THEN apiKey ELSE @],
                                RotationDeletes)
                 ELSE store
           s2 == IF sandbox THEN [s1 EXCEPT !.sandbox = "true"] ELSE s1
           s3 == IF production THEN [s2 EXCEPT !.sandbox = "false"] ELSE s2
       IN  store' = s3
    /\ cmd' = [cmd EXCEPT ![p] = [name |-> "config_set", pre |-> store, apiKeyArg |-> apiKey]]
    /\ sent' = [sent EXCEPT ![p] = <<>>]
    /\ replies' = [replies EXCEPT ![p] = <<>>]
    /\ outcome' = [outcome EXCEPT ![p] = Ok]
    /\ UNCHANGED <<nKeys, nTokens, pc, loc, installedWith, concurrent>>

\* config set [--api-key <key>] [--sandbox] [--production]
ConfigSet(p, apiKey, sandbox, production) ==
    /\ CanStart(p)
    /\ LET s1 == IF Truthy(apiKey)
                 THEN DeleteAll([store EXCEPT !.apiKey = apiKey], RotationDeletes)
                 ELSE store
           s2 == IF sandbox THEN [s1 EXCEPT !.sandbox = "true"] ELSE s1
           s3 == IF production THEN [s2 EXCEPT !.sandbox = "false"] ELSE s2
       IN  store' = s3
    /\ cmd' = [cmd EXCEPT ![p] = [name |-> "config_set", pre |-> store, apiKeyArg |-> apiKey]]
    /\ sent' = [sent EXCEPT ![p] = <<>>]
    /\ replies' = [replies EXCEPT ![p] = <<>>]
    /\ outcome' = [outcome EXCEPT ![p] = Ok]
    /\ UNCHANGED <<nKeys, nTokens, pc, loc, installedWith, concurrent>>

\* config clear
ConfigClear(p) ==
    /\ CanStart(p)
    /\ store' = EmptyStore
    /\ cmd' = [cmd EXCEPT ![p] = [name |-> "config_clear", pre |-> store, apiKeyArg |-> Undef]]
    /\ sent' = [sent EXCEPT ![p] = <<>>]
    /\ replies' = [replies EXCEPT ![p] = <<>>]
    /\ outcome' = [outcome EXCEPT ![p] = Ok]
    /\ UNCHANGED <<nKeys, nTokens, pc, loc, installedWith, concurrent>>

\* ------------------------------------------------------------------ envelope
\* One element of the Response array: an object with one key (kind) and a
\* payload; `token`, `key` and `id` are the payload's fields.
TokenItem(t) == [kind |-> "Token", token |-> t, key |-> Undef, id |-> 0]
ServerPublicKeyItem(k) == [kind |-> "ServerPublicKey", token |-> Undef, key |-> k, id |-> 0]
PrincipalItem(kind, id) == [kind |-> kind, token |-> Undef, key |-> Undef, id |-> id]

\* Envelopes the installation endpoint may answer with, t the token it issues.
InstallationEnvelopes(t) ==
    {<<TokenItem(t), ServerPublicKeyItem(k)>> : k \in ServerKeys}
    \cup {<<TokenItem(t)>>}
    \cup {<<ServerPublicKeyItem(k)>> : k \in ServerKeys}
    \cup {<<>>}

\* Envelopes the session endpoint may answer with, t the token it issues.
SessionEnvelopes(t) ==
    {<<TokenItem(t), PrincipalItem(k, i)>> : k \in PrincipalKinds, i \in PrincipalIds}
    \cup {<<TokenItem(t)>>}
    \cup {<<PrincipalItem(k, i)>> : k \in PrincipalKinds, i \in PrincipalIds}
    \cup {<<>>}

HasToken(envelope) == \E i \in 1..Len(envelope) : envelope[i].kind = "Token"

\* The loop over installationResp.Response; acc holds the two locals.
RECURSIVE ParseInstallation(_, _)
ParseInstallation(items, acc) ==
    IF items = <<>> THEN acc
    ELSE LET item == items[1]
             a1 == IF item.kind = "Token"
                   THEN [acc EXCEPT !.installationToken = item.token] ELSE acc
             a2 == IF item.kind = "ServerPublicKey"
                   THEN [a1 EXCEPT !.serverPublicKey = item.key] ELSE a1
         IN  ParseInstallation(Tail(items), a2)

RECURSIVE ParseSession_PersonOnly(_, _)
ParseSession_PersonOnly(items, acc) ==
    IF items = <<>> THEN acc
    ELSE LET item == items[1]
             a1 == IF item.kind = "Token"
                   THEN [acc EXCEPT !.sessionToken = item.token] ELSE acc
             a2 == IF item.kind = "UserPerson"
                   THEN [a1 EXCEPT !.userId = String(item.id)] ELSE a1
         IN  ParseSession_PersonOnly(Tail(items), a2)

\* The loop over sessionResp.Response; acc holds the two locals.
RECURSIVE ParseSession(_, _)
ParseSession(items, acc) ==
    IF items = <<>> THEN acc
    ELSE LET item == items[1]
             a1 == IF item.kind = "Token"
                   THEN [acc EXCEPT !.sessionToken = item.token] ELSE acc
             a2 == IF item.kind \in {"UserPerson", "UserCompany", "UserApiKey"}
                   THEN [a1 EXCEPT !.userId = String(item.id)] ELSE a1
         IN  ParseSession(Tail(items), a2)

\* The envelopes the remote endpoint may answer with now: it issues the next
\* token while the model has one left, and only token-less envelopes after.
NextToken == TokNames[nTokens + 1]
InstallationAnswers ==
    IF nTokens < MaxTokens THEN InstallationEnvelopes(NextToken)
    ELSE {e \in InstallationEnvelopes(Undef) : ~HasToken(e)}
SessionAnswers ==
    IF nTokens < MaxTokens THEN SessionEnvelopes(NextToken)
    ELSE {e \in SessionEnvelopes(Undef) : ~HasToken(e)}

\* ------------------------------------------------------------------ endpoints
InstallationEndpoint == <<"/installation">>
DeviceServerEndpoint == <<"/device-server">>
SessionServerEndpoint == <<"/session-server">>
ListUsersEndpoint == <<"/user">>
ListAccountsEndpoint(userId) == <<"/user/", userId, "/monetary-account">>

HandshakeEndpoints == {InstallationEndpoint, DeviceServerEndpoint, SessionServerEndpoint}

\* ------------------------------------------------------------------ handshake
\* A command of process p ends: handleError / the end of the action.
Exit(p, result) ==
    /\ pc' = [pc EXCEPT ![p] = "idle"]
    /\ outcome' = [outcome EXCEPT ![p] = result]

\* Process p sends request r and awaits the answer at `at`.
Send(p, r, at) ==
    /\ sent' = [sent EXCEPT ![p] = Append(@, r)]
    /\ pc' = [pc EXCEPT ![p] = at]

\* Process p receives the answer to the request it awaits.
Receive(p, reply) == replies' = [replies EXCEPT ![p] = Append(@, reply)]

\* A command starts: nothing sent or answered yet.
NothingSent(p) ==
    /\ sent' = [sent EXCEPT ![p] = <<>>]
    /\ replies' = [replies EXCEPT ![p] = <<>>]

\* The request process p awaits an answer to.
Awaited(p) == sent[p][Len(sent[p])]

HasSecret_Always(config) == TRUE

\* Whether a secret is configured (the test both handshake commands begin with).
HasSecret(config) == Truthy(config.apiKey)

TokenMissing_Never(token) == FALSE

\* if (!installationToken) / if (!sessionToken): the response gave no token.
TokenMissing(token) == ~Truthy(token)

\* setupAuth up to its first await: the secret check, the key pair, and the
\* installation request.  `log` is the list of requests the command has sent.
setupAuth(p) ==
    LET config == getConfig
    IN  IF ~HasSecret(config)
        THEN /\ Exit(p, ConfigError)
             /\ NothingSent(p)
             /\ UNCHANGED <<store, nKeys, loc>>
        ELSE /\ nKeys < MaxKeyPairs
             /\ nKeys' = nKeys + 1
             /\ LET privateKey == PrivNames[nKeys + 1]
                    publicKey == PubNames[nKeys + 1]
                    stored == [store EXCEPT !.privateKey = privateKey,
                                            !.publicKey = publicKey]
                IN  /\ store' = stored
                    /\ sent' = [sent EXCEPT ![p] =
                         <<bunqPost(InstallationEndpoint,
                                    Obj(<<<<"client_public_key", JsStr(publicKey)>>>>),
                                    Undef, stored)>>]
                    /\ replies' = [replies EXCEPT ![p] = <<>>]
             /\ pc' = [pc EXCEPT ![p] = "installation"]
             /\ loc' = [loc EXCEPT ![p] = [apiKey |-> config.apiKey,
                                           installationToken |-> Undef]]
             /\ outcome' = [outcome EXCEPT ![p] = NoOutcome]

\* auth setup
AuthSetup(p) ==
    /\ CanStart(p)
    /\ cmd' = [cmd EXCEPT ![p] = [name |-> "auth_setup", pre |-> store, apiKeyArg |-> Undef]]
    /\ setupAuth(p)
    /\ UNCHANGED <<nTokens, installedWith, concurrent>>

\* The installation request is rejected or gets no answer: catch, handleError.
InstallationFails(p, status) ==
    /\ pc[p] = "installation"
    /\ Receive(p, Failure(status))
    /\ Exit(p, RequestError(status))
    /\ UNCHANGED <<store, nKeys, nTokens, loc, sent, cmd, installedWith, concurrent>>

\* The installation request is answered with an envelope.
InstallationReplies(p, envelope) ==
    /\ pc[p] = "installation"
    /\ Receive(p, Success(envelope))
    /\ nTokens' = IF HasToken(envelope) THEN nTokens + 1 ELSE nTokens
    /\ installedWith' =
         IF HasToken(envelope)
         THEN installedWith \cup {<<NextToken, Awaited(p).body.fields[1][2][2]>>}
         ELSE installedWith
    /\ LET parsed == ParseInstallation(envelope,
                        [installationToken |-> Undef, serverPublicKey |-> Undef])
       IN  IF TokenMissing(parsed.installationToken)
           THEN /\ Exit(p, ThrownError)
                /\ UNCHANGED <<store, loc, sent>>
           ELSE LET s1 == [store EXCEPT !.installationToken = parsed.installationToken]
                    s2 == IF Truthy(parsed.serverPublicKey)
                          THEN [s1 EXCEPT !.serverPublicKey = parsed.serverPublicKey]
                          ELSE s1
                IN  /\ store' = s2
                    /\ loc' = [loc EXCEPT ![p].installationToken = parsed.installationToken]
                    /\ Send(p, bunqPost(DeviceServerEndpoint,
                                        Obj(<<<<"description", JsStr("bunq-cli")>>,
                                              <<"secret", JsStr(loc[p].apiKey)>>,
                                              <<"permitted_ips", JsArr1("*")>>>>),
                                        parsed.installationToken, s2),
                            "device-server")
                    /\ UNCHANGED outcome
    /\ UNCHANGED <<nKeys, cmd, concurrent>>

\* The device-server request is rejected or gets no answer.
DeviceServerFails(p, status) ==
    /\ pc[p] = "device-server"
    /\ Receive(p, Failure(status))
    /\ Exit(p, RequestError(status))
    /\ UNCHANGED <<store, nKeys, nTokens, loc, sent, cmd, installedWith, concurrent>>

\* Envelopes the device-server endpoint may answer with.
DeviceEnvelopes == {<<>>, <<PrincipalItem("Id", 7)>>}

\* The device-server request succeeds; its answer is not read.
DeviceServerReplies(p, envelope) ==
    /\ pc[p] = "device-server"
    /\ Receive(p, Success(envelope))
    /\ Send(p, bunqPost(SessionServerEndpoint,
                        Obj(<<<<"secret", JsStr(loc[p].apiKey)>>>>),
                        loc[p].installationToken, getConfig),
            "session-server")
    /\ UNCHANGED <<store, nKeys, nTokens, loc, outcome, cmd, installedWith, concurrent>>

\* The session-server request of setupAuth is rejected or gets no answer.
SessionServerFails(p, status) ==
    /\ pc[p] = "session-server"
    /\ Receive(p, Failure(status))
    /\ Exit(p, RequestError(status))
    /\ UNCHANGED <<store, nKeys, nTokens, loc, sent, cmd, installedWith, concurrent>>

StoreSession_UserIdFirst(p, envelope) ==
    LET parsed == ParseSession(envelope, [sessionToken |-> Undef, userId |-> Undef])
        s1 == IF Truthy(parsed.userId) THEN [store EXCEPT !.userId = parsed.userId]
              ELSE store
    IN  IF TokenMissing(parsed.sessionToken)
        THEN /\ Exit(p, ThrownError)
             /\ store' = s1
        ELSE /\ store' = [s1 EXCEPT !.sessionToken = parsed.sessionToken]
             /\ Exit(p, Ok)

\* What both commands do with a session response: throw without a token,
\* else store the token and, if a principal was found, the user id.
StoreSession(p, envelope) ==
    LET parsed == ParseSession(envelope, [sessionToken |-> Undef, userId |-> Undef])
    IN  IF TokenMissing(parsed.sessionToken)
        THEN /\ Exit(p, ThrownError)
             /\ UNCHANGED store
        ELSE /\ store' = IF Truthy(parsed.userId)
                         THEN [store EXCEPT !.sessionToken = parsed.sessionToken,
                                            !.userId = parsed.userId]
                         ELSE [store EXCEPT !.sessionToken = parsed.sessionToken]
             /\ Exit(p, Ok)

\* The session-server request of setupAuth is answered with an envelope.
SessionServerReplies(p, envelope) ==
    /\ pc[p] = "session-server"
    /\ nTokens' = IF HasToken(envelope) THEN nTokens + 1 ELSE nTokens
    /\ Receive(p, Success(envelope))
    /\ StoreSession(p, envelope)
    /\ UNCHANGED <<nKeys, loc, sent, cmd, installedWith, concurrent>>

\* Whether refreshSession goes on to the session request by itself.
HasInstallation_Always(config) == TRUE
HasInstallation_Never(config) == FALSE

HasInstallation(config) == Truthy(config.installationToken)

\* auth refresh, up to its first await.
RefreshSession(p) ==
    /\ CanStart(p)
    /\ cmd' = [cmd EXCEPT ![p] = [name |-> "auth_refresh", pre |-> store, apiKeyArg |-> Undef]]
    /\ LET config == getConfig
       IN  IF ~HasSecret(config)
           THEN /\ Exit(p, ConfigError)
                /\ NothingSent(p)
                /\ UNCHANGED <<store, nKeys, loc>>
           ELSE IF ~HasInstallation(config)
           THEN setupAuth(p)
           ELSE /\ sent' = [sent EXCEPT ![p] =
                      <<bunqPost(SessionServerEndpoint,
                                 Obj(<<<<"secret", JsStr(config.apiKey)>>>>),
                                 config.installationToken, config)>>]
                /\ replies' = [replies EXCEPT ![p] = <<>>]
                /\ pc' = [pc EXCEPT ![p] = "refresh"]
                /\ loc' = [loc EXCEPT ![p] = [apiKey |-> config.apiKey,
                                              installationToken |-> config.installationToken]]
                /\ outcome' = [outcome EXCEPT ![p] = NoOutcome]
                /\ UNCHANGED <<store, nKeys>>
    /\ UNCHANGED <<nTokens, installedWith, concurrent>>

\* The session-server request of refreshSession is rejected or gets no answer.
RefreshFails(p, status) ==
    /\ pc[p] = "refresh"
    /\ Receive(p, Failure(status))
    /\ Exit(p, RequestError(status))
    /\ UNCHANGED <<store, nKeys, nTokens, loc, sent, cmd, installedWith, concurrent>>

\* The session-server request of refreshSession is answered with an envelope.
RefreshReplies(p, envelope) ==
    /\ pc[p] = "refresh"
    /\ nTokens' = IF HasToken(envelope) THEN nTokens + 1 ELSE nTokens
    /\ Receive(p, Success(envelope))
    /\ StoreSession(p, envelope)
    /\ UNCHANGED <<nKeys, loc, sent, cmd, installedWith, concurrent>>

\* ------------------------------------------------------------------ domain calls
\* requireAuth(): whether it returns the configuration (TRUE) or ends the
\* command (FALSE); a domain command may be invoked at any time.
requireAuth == BOOLEAN

\* A domain command: requireAuth() lets it pass or ends it; listAccounts
\* (needsUserId) also ends without a userId; then one GET is sent.
DomainCall(p, authorized, needsUserId) ==
    /\ CanStart(p)
    /\ cmd' = [cmd EXCEPT ![p] = [name |-> "domain", pre |-> store, apiKeyArg |-> Undef]]
    /\ LET config == getConfig
       IN  IF ~authorized \/ (needsUserId /\ ~Truthy(config.userId))
           THEN /\ Exit(p, ConfigError)
                /\ NothingSent(p)
           ELSE /\ replies' = [replies EXCEPT ![p] = <<>>]
                /\ sent' = [sent EXCEPT ![p] =
                      <<bunqGet(IF needsUserId THEN ListAccountsEndpoint(config.userId)
                                ELSE ListUsersEndpoint, config)>>]
                /\ pc' = [pc EXCEPT ![p] = "domain"]
                /\ outcome' = [outcome EXCEPT ![p] = NoOutcome]
    /\ UNCHANGED <<store, nKeys, nTokens, loc, installedWith, concurrent>>

DomainFails_Retries(p, status) ==
    /\ pc[p] = "domain"
    /\ Receive(p, Failure(status))
    /\ sent' = [sent EXCEPT ![p] = Append(@, Awaited(p))]
    /\ UNCHANGED <<store, nKeys, nTokens, pc, loc, outcome, cmd, installedWith, concurrent>>

\* The domain request is rejected or gets no answer: handleError.
DomainFails(p, status) ==
    /\ pc[p] = "domain"
    /\ Receive(p, Failure(status))
    /\ Exit(p, RequestError(status))
    /\ UNCHANGED <<store, nKeys, nTokens, loc, sent, cmd, installedWith, concurrent>>

\* The domain request is answered; the answer is printed.
DomainReplies(p) ==
    /\ pc[p] = "domain"
    /\ Receive(p, Success(<<>>))
    /\ Exit(p, Ok)
    /\ UNCHANGED <<store, nKeys, nTokens, loc, sent, cmd, installedWith, concurrent>>

Next ==
    \/ \E p \in Procs, k \in ApiKeyArgs, sb \in BOOLEAN, pr \in BOOLEAN : ConfigSet(p, k, sb, pr)
    \/ \E p \in Procs : ConfigClear(p)
    \/ \E p \in Procs : AuthSetup(p)
    \/ \E p \in Procs, st \in FailureStatuses : InstallationFails(p, st)
    \/ \E p \in Procs, e \in InstallationAnswers : InstallationReplies(p, e)
    \/ \E p \in Procs, st \in FailureStatuses : DeviceServerFails(p, st)
    \/ \E p \in Procs, e \in DeviceEnvelopes : DeviceServerReplies(p, e)
    \/ \E p \in Procs, st \in FailureStatuses : SessionServerFails(p, st)
    \/ \E p \in Procs, e \in SessionAnswers : SessionServerReplies(p, e)
    \/ \E p \in Procs : RefreshSession(p)
    \/ \E p \in Procs, st \in FailureStatuses : RefreshFails(p, st)
    \/ \E p \in Procs, e \in SessionAnswers : RefreshReplies(p, e)
    \/ \E p \in Procs, a \in requireAuth, u \in BOOLEAN : DomainCall(p, a, u)
    \/ \E p \in Procs, st \in FailureStatuses : DomainFails(p, st)
    \/ \E p \in Procs : DomainReplies(p)

Spec == Init /\ [][Next]_vars

\* ------------------------------------------------------------------ properties
\* Every request sent by the current or last command of some process.
AllSent == UNION {{sent[p][i] : i \in 1..Len(sent[p])} : p \in Procs}

\* The endpoints of the requests process p's command has sent, in order.
EndpointsSent(p) == [i \in 1..Len(sent[p]) |-> sent[p][i].endpoint]

IsPrefix(s, t) == Len(s) <= Len(t) /\ \A i \in 1..Len(s) : s[i] = t[i]

AllIdle == \A p \in Procs : pc[p] = "idle"

\* C1: whenever no command is running and the store holds an
\* installationToken, that token was returned by an installation request
\* that carried the publicKey the store holds now.
C1_InstallationTokenMatchesKeyPair ==
    (AllIdle /\ Truthy(store.installationToken))
        => <<store.installationToken, store.publicKey>> \in installedWith

\* C2: after `config set --api-key <key>` the six credential fields are
\* absent from the store and the store holds the new secret.
C2_RotationClearsCredentials ==
    \A p \in Procs :
        (cmd[p].name = "config_set" /\ Truthy(cmd[p].apiKeyArg))
            => /\ store.sessionToken = Undef
               /\ store.installationToken = Undef
               /\ store.privateKey = Undef
               /\ store.publicKey = Undef
               /\ store.serverPublicKey = Undef
               /\ store.userId = Undef
               /\ store.apiKey = cmd[p].apiKeyArg

\* C2 witness: a rotation to another secret of a store that held every
\* credential field.
C2_Witness ==
    \E p \in Procs :
        /\ cmd[p].name = "config_set" /\ Truthy(cmd[p].apiKeyArg)
        /\ Truthy(cmd[p].pre.apiKey) /\ cmd[p].pre.apiKey # cmd[p].apiKeyArg
        /\ Truthy(cmd[p].pre.sessionToken) /\ Truthy(cmd[p].pre.installationToken)
        /\ Truthy(cmd[p].pre.privateKey) /\ Truthy(cmd[p].pre.publicKey)
        /\ Truthy(cmd[p].pre.serverPublicKey) /\ Truthy(cmd[p].pre.userId)

\* C3: a handshake started while the store holds both privateKey and
\* publicKey leaves both as they were.
C3_KeyPairKept ==
    \A p \in Procs :
        (/\ cmd[p].name \in {"auth_setup", "auth_refresh"}
         /\ Truthy(cmd[p].pre.privateKey) /\ Truthy(cmd[p].pre.publicKey))
            => /\ store.privateKey = cmd[p].pre.privateKey
               /\ store.publicKey = cmd[p].pre.publicKey

\* C4: every device-server and session-server request is sent while the
\* store holds an installationToken that a successful installation returned.
C4_HandshakeOrdering ==
    \A r \in AllSent :
        r.endpoint \in {DeviceServerEndpoint, SessionServerEndpoint}
            => /\ Truthy(r.config.installationToken)
               /\ \E i \in installedWith : i[1] = r.config.installationToken

\* C4 witness: a full setup has sent its device-server and session-server
\* requests.
C4_Witness ==
    \E p \in Procs :
        /\ cmd[p].name = "auth_setup"
        /\ EndpointsSent(p) = <<InstallationEndpoint, DeviceServerEndpoint, SessionServerEndpoint>>

\* C5: no request to the installation endpoint carries the
\* authentication header.
C5_InstallationUnauthenticated ==
    \A r \in AllSent : r.endpoint = InstallationEndpoint => r.auth = Undef

C7_SessionWithoutInstallationFails ==
    \A p \in Procs :
        (cmd[p].name = "auth_refresh" /\ ~Truthy(cmd[p].pre.installationToken))
            => /\ sent[p] = <<>>
               /\ outcome[p] = ConfigError

\* C7 as amended: no session-server request is sent while the store holds no
\* installationToken; a refresh started without one sends nothing and ends
\* with a configuration error when the secret is missing, and otherwise
\* starts with an installation request and does not end with a
\* configuration error.
C7_NoSessionBeforeInstallation ==
    /\ \A r \in AllSent :
          r.endpoint = SessionServerEndpoint => Truthy(r.config.installationToken)
    /\ \A p \in Procs :
          (cmd[p].name = "auth_refresh" /\ ~Truthy(cmd[p].pre.installationToken))
              => IF ~Truthy(cmd[p].pre.apiKey)
                 THEN sent[p] = <<>> /\ outcome[p] = ConfigError
                 ELSE /\ sent[p] # <<>>
                      /\ sent[p][1].endpoint = InstallationEndpoint
                      /\ outcome[p] # ConfigError

\* C7 witness: a refresh started with a secret and no installationToken has
\* gone on to send its session-server request.
C7_Witness ==
    \E p \in Procs :
        /\ cmd[p].name = "auth_refresh"
        /\ Truthy(cmd[p].pre.apiKey) /\ ~Truthy(cmd[p].pre.installationToken)
        /\ Len(sent[p]) = 3 /\ sent[p][3].endpoint = SessionServerEndpoint

\* C8: a refresh started with a secret and an installationToken sends one
\* request, to the session endpoint, and no other, however it ends.
C8_RefreshShortcut ==
    \A p \in Procs :
        (/\ cmd[p].name = "auth_refresh"
         /\ Truthy(cmd[p].pre.apiKey) /\ Truthy(cmd[p].pre.installationToken))
            => EndpointsSent(p) = <<SessionServerEndpoint>>

\* C8 witness: such a refresh has ended with a rejected request.
C8_Witness ==
    \E p \in Procs :
        /\ cmd[p].name = "auth_refresh"
        /\ Truthy(cmd[p].pre.apiKey) /\ Truthy(cmd[p].pre.installationToken)
        /\ pc[p] = "idle" /\ outcome[p].kind = "request_error"

\* C9: a refresh started with a secret and no installationToken sends the
\* installation, device-server and session-server requests in that order,
\* and when it ends well the store holds installationToken and sessionToken.
C9_RefreshRunsFullSetup ==
    \A p \in Procs :
        (/\ cmd[p].name = "auth_refresh"
         /\ Truthy(cmd[p].pre.apiKey) /\ ~Truthy(cmd[p].pre.installationToken))
            => /\ sent[p] # <<>>
               /\ IsPrefix(EndpointsSent(p),
                     <<InstallationEndpoint, DeviceServerEndpoint, SessionServerEndpoint>>)
               /\ (pc[p] = "idle" /\ outcome[p] = Ok)
                     => /\ Len(sent[p]) = 3
                        /\ Truthy(store.installationToken)
                        /\ Truthy(store.sessionToken)

\* C9 witness: such a refresh has ended well.
C9_Witness ==
    \E p \in Procs :
        /\ cmd[p].name = "auth_refresh"
        /\ Truthy(cmd[p].pre.apiKey) /\ ~Truthy(cmd[p].pre.installationToken)
        /\ pc[p] = "idle" /\ outcome[p] = Ok

\* C10: the authentication header of every request is the token argument
\* if given, else the stored sessionToken if present, else the stored
\* installationToken if present, and is left out exactly when none is.
C10_AuthTokenSelection ==
    \A r \in AllSent :
        /\ Truthy(r.token) => r.auth = r.token
        /\ (~Truthy(r.token) /\ Truthy(r.config.sessionToken))
              => r.auth = r.config.sessionToken
        /\ (/\ ~Truthy(r.token) /\ ~Truthy(r.config.sessionToken)
            /\ Truthy(r.config.installationToken))
              => r.auth = r.config.installationToken
        /\ r.auth = Undef
              <=> (/\ ~Truthy(r.token) /\ ~Truthy(r.config.sessionToken)
                   /\ ~Truthy(r.config.installationToken))

\* C10 witness: a request given a token argument while the store holds a
\* different sessionToken.
C10_Witness ==
    \E r \in AllSent :
        /\ Truthy(r.token) /\ Truthy(r.config.sessionToken)
        /\ r.token # r.config.sessionToken

\* ------------------------------------------------------------------ dispatch alone
\* A private key text that crypto cannot parse.
BadKey == "not a PEM key"
DispatchKeys == {Undef, "priv1", BadKey}
DispatchMethods == {"GET", "POST"}
DispatchEndpoints == {SessionServerEndpoint}
DispatchBodies ==
    {JsNull, Obj(<<<<"secret", JsStr("k1")>>>>), Obj(<<<<"secret", JsStr("k2")>>>>)}

\* Configurations a dispatch may find: any private key text.
DispatchConfigs == {[EmptyStore EXCEPT !.privateKey = k] : k \in DispatchKeys}

\* Two command-line processes, each dispatching single requests.
InitDispatch ==
    /\ store \in DispatchConfigs
    /\ nKeys = 0
    /\ nTokens = 0
    /\ pc = [p \in Procs |-> "idle"]
    /\ loc = [p \in Procs |-> NoLocals]
    /\ sent = [p \in Procs |-> <<>>]
    /\ outcome = [p \in Procs |-> NoOutcome]
    /\ cmd = [p \in Procs |-> NoCommand]
    /\ installedWith = {}
    /\ replies = [p \in Procs |-> <<>>]
    /\ concurrent = TRUE

\* One call of bunqRequest(method, endpoint, body) by a command of p.
Dispatch(p, method, endpoint, body) ==
    /\ CanStart(p)
    /\ cmd' = [cmd EXCEPT ![p] = [name |-> "dispatch", pre |-> store, apiKeyArg |-> Undef]]
    /\ replies' = [replies EXCEPT ![p] = <<>>]
    /\ sent' = [sent EXCEPT ![p] = <<bunqRequest(method, endpoint, body, Undef, getConfig)>>]
    /\ pc' = [pc EXCEPT ![p] = "domain"]
    /\ outcome' = [outcome EXCEPT ![p] = NoOutcome]
    /\ UNCHANGED <<store, nKeys, nTokens, loc, installedWith, concurrent>>

NextDispatch ==
    \/ \E p \in Procs, m \in DispatchMethods, e \in DispatchEndpoints, b \in DispatchBodies :
          Dispatch(p, m, e, b)
    \/ \E p \in Procs, st \in FailureStatuses : DomainFails(p, st)
    \/ \E p \in Procs : DomainReplies(p)
    \/ \E p \in Procs, k \in {Undef, "k1"}, sb \in BOOLEAN : ConfigSet(p, k, sb, FALSE)

SpecDispatch == InitDispatch /\ [][NextDispatch]_vars

\* ------------------------------------------------------------------ concurrent callers
\* Two command-line processes share a store that holds a secret and no
\* credentials yet, and run setups and domain commands at the same time.
InitConc ==
    /\ store = [EmptyStore EXCEPT !.apiKey = "k1"]
    /\ nKeys = 0
    /\ nTokens = 0
    /\ pc = [p \in Procs |-> "idle"]
    /\ loc = [p \in Procs |-> NoLocals]
    /\ sent = [p \in Procs |-> <<>>]
    /\ outcome = [p \in Procs |-> NoOutcome]
    /\ cmd = [p \in Procs |-> NoCommand]
    /\ installedWith = {}
    /\ replies = [p \in Procs |-> <<>>]
    /\ concurrent = TRUE

NextConc ==
    \/ \E p \in Procs : AuthSetup(p)
    \/ \E p \in Procs, st \in {401} : InstallationFails(p, st)
    \/ \E p \in Procs, e \in InstallationAnswers : InstallationReplies(p, e)
    \/ \E p \in Procs, st \in {401} : DeviceServerFails(p, st)
    \/ \E p \in Procs, e \in DeviceEnvelopes : DeviceServerReplies(p, e)
    \/ \E p \in Procs, st \in {401} : SessionServerFails(p, st)
    \/ \E p \in Procs, e \in SessionAnswers : SessionServerReplies(p, e)
    \/ \E p \in Procs, u \in BOOLEAN : DomainCall(p, TRUE, u)
    \/ \E p \in Procs, st \in {401} : DomainFails(p, st)
    \/ \E p \in Procs : DomainReplies(p)

SpecConc == InitConc /\ [][NextConc]_vars

\* ------------------------------------------------------------------ handshake properties
HandshakeCommands == {"auth_setup", "auth_refresh"}

\* The tokens, server public keys and principal ids an envelope carries.
TokenEntries(e) == {e[i].token : i \in {j \in 1..Len(e) : e[j].kind = "Token"}}
ServerKeyEntries(e) == {e[i].key : i \in {j \in 1..Len(e) : e[j].kind = "ServerPublicKey"}}
PrincipalEntries(e) ==
    {e[i].id : i \in {j \in 1..Len(e) :
                        e[j].kind \in {"UserPerson", "UserCompany", "UserApiKey"}}}

\* The decimal text of a principal id.
IdText(id) == IF id = 7 THEN "7" ELSE "42"

\* Process p's command runs the full setup (its first request is the
\* installation request).
RunsFullSetup(p) == sent[p] # <<>> /\ sent[p][1].endpoint = InstallationEndpoint

\* The i-th request of p's command failed: it was rejected or got no answer,
\* or its answer lacks the token entry the step needs.
StepFailed(p, i) ==
    \/ replies[p][i].status # 200
    \/ /\ sent[p][i].endpoint \in {InstallationEndpoint, SessionServerEndpoint}
       /\ TokenEntries(replies[p][i].envelope) = {}

EndedInError(p) == pc[p] = "idle" /\ outcome[p].kind \in {"error", "request_error"}

\* C11: every device-server and session-server request carries, as its
\* authentication header, an installation token (the one the store holds),
\* also when the store holds a sessionToken.
C11_HandshakeUsesInstallationToken ==
    \A r \in AllSent :
        r.endpoint \in {DeviceServerEndpoint, SessionServerEndpoint}
            => /\ r.auth \in {i[1] : i \in installedWith}
               /\ r.auth = r.config.installationToken
               /\ r.auth # r.config.sessionToken

\* C11 witness: a session-server and a device-server request sent while the
\* store holds a sessionToken.
C11_Witness ==
    \E p \in Procs :
        /\ Len(sent[p]) = 3
        /\ sent[p][2].endpoint = DeviceServerEndpoint
        /\ Truthy(sent[p][2].config.sessionToken)
        /\ Truthy(sent[p][3].config.sessionToken)

\* C12: in a full setup, once a step has failed no later request is sent,
\* the command has ended in error, and sessionToken and userId (the
\* credentials of the steps after installation and device registration) are
\* as they were when the setup started.
C12_FailureAbortsSetup ==
    \A p \in Procs :
        RunsFullSetup(p) =>
            \A i \in 1..Len(replies[p]) :
                StepFailed(p, i)
                    => /\ Len(sent[p]) = i
                       /\ Len(replies[p]) = i
                       /\ EndedInError(p)
                       /\ store.sessionToken = cmd[p].pre.sessionToken
                       /\ store.userId = cmd[p].pre.userId
                       /\ i = 1 => /\ store.installationToken = cmd[p].pre.installationToken
                                   /\ store.serverPublicKey = cmd[p].pre.serverPublicKey

\* C12 witness: a full setup whose device registration was rejected.
C12_Witness ==
    \E p \in Procs :
        /\ RunsFullSetup(p)
        /\ Len(replies[p]) = 2 /\ replies[p][2].status = 401
        /\ pc[p] = "idle"

\* C13: a handshake command started right after a full setup that failed at
\* device registration or session creation begins with an installation
\* request.
C13_NotResumable ==
    [][\A p \in Procs :
          (/\ pc[p] = "idle" /\ pc'[p] # "idle"
           /\ cmd'[p].name \in HandshakeCommands
           /\ cmd[p].name \in HandshakeCommands
           /\ RunsFullSetup(p) /\ Len(sent[p]) >= 2 /\ EndedInError(p))
              => sent'[p][1].endpoint = InstallationEndpoint]_vars

\* C14: a handshake command started while the store holds no secret ends at
\* once with a configuration error; it generates no key pair, sends nothing
\* and leaves the store as it was.
C14_NoSecretNoHandshake ==
    [][\A p \in Procs :
          (/\ pc[p] = "idle" /\ vars' # vars
           /\ cmd'[p].name \in HandshakeCommands
           /\ ~Truthy(store.apiKey))
              => /\ store' = store
                 /\ nKeys' = nKeys
                 /\ sent'[p] = <<>>
                 /\ pc'[p] = "idle"
                 /\ outcome'[p] = ConfigError]_vars

\* C14 witness: a setup started without a secret has ended so.
C14_Witness ==
    \E p \in Procs :
        /\ cmd[p].name = "auth_setup"
        /\ ~Truthy(cmd[p].pre.apiKey)
        /\ outcome[p] = ConfigError /\ sent[p] = <<>> /\ nKeys = 0

\* C15: when the installation response has no token entry the command ends
\* with a thrown error, installationToken and serverPublicKey are as before
\* and only the installation request has been sent.
C15_InstallationWithoutToken ==
    \A p \in Procs :
        (/\ RunsFullSetup(p) /\ Len(replies[p]) >= 1
         /\ replies[p][1].status = 200
         /\ TokenEntries(replies[p][1].envelope) = {})
            => /\ pc[p] = "idle" /\ outcome[p] = ThrownError
               /\ EndpointsSent(p) = <<InstallationEndpoint>>
               /\ store.installationToken = cmd[p].pre.installationToken
               /\ store.serverPublicKey = cmd[p].pre.serverPublicKey

\* C15 witness: such a response that carries a server public key, into a
\* store without one.
C15_Witness ==
    \E p \in Procs :
        /\ RunsFullSetup(p) /\ Len(replies[p]) = 1
        /\ replies[p][1].status = 200
        /\ TokenEntries(replies[p][1].envelope) = {}
        /\ ServerKeyEntries(replies[p][1].envelope) # {}
        /\ ~Truthy(cmd[p].pre.serverPublicKey)

\* C16: when a session-server request is rejected, or its response has no
\* token entry, the command ends in error and sessionToken and userId are
\* as they were before, in setup and in refresh.
C16_FailedSessionKeepsSession ==
    \A p \in Procs :
        \A i \in 1..Len(replies[p]) :
            (sent[p][i].endpoint = SessionServerEndpoint /\ StepFailed(p, i))
                => /\ EndedInError(p)
                   /\ store.sessionToken = cmd[p].pre.sessionToken
                   /\ store.userId = cmd[p].pre.userId

\* C16 witness: a refresh whose response names a principal other than the
\* stored userId but has no token entry.
C16_Witness ==
    \E p \in Procs :
        /\ cmd[p].name = "auth_refresh" /\ Len(replies[p]) = 1
        /\ sent[p][1].endpoint = SessionServerEndpoint
        /\ replies[p][1].status = 200
        /\ TokenEntries(replies[p][1].envelope) = {}
        /\ \E u \in PrincipalEntries(replies[p][1].envelope) :
              Truthy(cmd[p].pre.userId) /\ cmd[p].pre.userId # IdText(u)

\* C17: after a full setup whose three requests succeeded, the store holds
\* the installation response's token and server public key (if it has one),
\* the session response's token, and the text of its principal's id.
C17_FullSetupStoresCredentials ==
    \A p \in Procs :
        (/\ RunsFullSetup(p) /\ Len(replies[p]) = 3
         /\ \A i \in 1..3 : ~StepFailed(p, i))
            => /\ pc[p] = "idle" /\ outcome[p] = Ok
               /\ TokenEntries(replies[p][1].envelope) = {store.installationToken}
               /\ ServerKeyEntries(replies[p][1].envelope) # {}
                     => ServerKeyEntries(replies[p][1].envelope) = {store.serverPublicKey}
               /\ TokenEntries(replies[p][3].envelope) = {store.sessionToken}
               /\ \A u \in PrincipalEntries(replies[p][3].envelope) :
                     store.userId = IdText(u)

\* C17 witness: such a setup whose session response names a UserCompany,
\* and whose device-server response had an entry of its own.
C17_Witness ==
    \E p \in Procs :
        /\ RunsFullSetup(p) /\ Len(replies[p]) = 3
        /\ \A i \in 1..3 : ~StepFailed(p, i)
        /\ replies[p][2].envelope # <<>>
        /\ ServerKeyEntries(replies[p][1].envelope) # {}
        /\ \E i \in 1..Len(replies[p][3].envelope) :
              replies[p][3].envelope[i].kind = "UserCompany"

\* C18: every request gets at most one answer and is sent once; after a
\* rejected request no further request is sent by the command, which ends
\* with an error carrying the status and payload of that answer.
C18_NoRetry ==
    \A p \in Procs :
        /\ Len(replies[p]) <= Len(sent[p])
        /\ Len(sent[p]) <= Len(replies[p]) + 1
        /\ \A i \in 1..Len(replies[p]) :
              replies[p][i].status # 200
                  => /\ Len(sent[p]) = i
                     /\ pc[p] = "idle"
                     /\ outcome[p].kind = "request_error"
                     /\ outcome[p].status = replies[p][i].status
                     /\ outcome[p].data = replies[p][i].data

\* C18 witness: a domain request sent with a session token was answered 401.
C18_Witness ==
    \E p \in Procs :
        /\ cmd[p].name = "domain" /\ Len(replies[p]) = 1
        /\ Truthy(sent[p][1].config.sessionToken)
        /\ replies[p][1].status = 401

\* ------------------------------------------------------------------ dispatch properties
\* The dispatches whose request went through signRequest (a private key
\* was held).
SignedCalls == {r \in AllSent : Truthy(r.config.privateKey)}

\* Key texts that are PEM private keys.
PemKeys == {PrivNames[i] : i \in 1..Len(PrivNames)}

\* C19: every dispatch sends its request, with or without a private key
\* and whether or not the key can sign; the signature header is set
\* exactly when a private key is held and it signs; a dispatch never ends
\* in an error of its own, and ends well when the answer is a success.
C19_SigningNeverBlocks ==
    \A p \in Procs :
        cmd[p].name = "dispatch"
            => /\ Len(sent[p]) = 1
               /\ sent[p][1].config = cmd[p].pre
               /\ sent[p][1].signature # NoSignature
                     <=> (Truthy(cmd[p].pre.privateKey) /\ cmd[p].pre.privateKey \in PemKeys)
               /\ outcome[p].kind \in {"none", "ok", "request_error"}
               /\ (replies[p] # <<>> /\ replies[p][1].status = 200) => outcome[p] = Ok

\* C19 witness: a dispatch with an unusable private key was sent unsigned
\* and answered.
C19_Witness ==
    \E p \in Procs :
        /\ cmd[p].name = "dispatch" /\ cmd[p].pre.privateKey = BadKey
        /\ sent[p][1].signature = NoSignature
        /\ replies[p] # <<>> /\ replies[p][1].status = 200 /\ outcome[p] = Ok

C21_SigningString ==
    \A r \in AllSent :
        r.signature # NoSignature
            => /\ r.method \in {"GET", "POST"}
               /\ r.signature[3] =
                     <<r.method, " ", "/v1", r.endpoint, "\n\n">> \o WireData(r.body)

\* C21 witness: a signed request with body {"secret":"k1"}, signed over
\* POST /v1/session-server, two newlines and that text, and a signed GET
\* without a body, signed over a string that ends with the two newlines.
C21_Witness ==
    /\ \E r \in AllSent :
          /\ r.signature # NoSignature
          /\ r.signature[3] = <<"POST", " ", "/v1", SessionServerEndpoint, "\n\n",
                                "{", "\"", "secret", "\"", ":", "\"", "k1", "\"", "}">>
    /\ \E r \in AllSent :
          /\ r.signature # NoSignature /\ r.body.null
          /\ r.signature[3] = <<"GET", " ", "/v1", SessionServerEndpoint, "\n\n">>

\* C22: when a request of setup or refresh is rejected or gets no answer,
\* the command ends with a request error that carries the status and the
\* payload of that answer, unchanged.
C22_HandshakeErrorsUnmasked ==
    \A p \in Procs :
        (cmd[p].name \in HandshakeCommands /\ replies[p] # <<>>
         /\ replies[p][Len(replies[p])].status # 200)
            => /\ pc[p] = "idle"
               /\ outcome[p] = [kind |-> "request_error",
                                status |-> replies[p][Len(replies[p])].status,
                                data |-> replies[p][Len(replies[p])].data]

\* C22 witness: a refresh whose session-server request was answered 401
\* with an error payload.
C22_Witness ==
    \E p \in Procs :
        /\ cmd[p].name = "auth_refresh" /\ Len(replies[p]) = 1
        /\ sent[p][1].endpoint = SessionServerEndpoint
        /\ replies[p][1].status = 401 /\ replies[p][1].data = "Error"

\* C23: config set without a secret (only --sandbox or --production, or
\* nothing) leaves every field but the environment selector as it was.
C23_EnvironmentChangeFrame ==
    \A p \in Procs :
        (cmd[p].name = "config_set" /\ ~Truthy(cmd[p].apiKeyArg))
            => \A f \in DOMAIN store \ {"sandbox"} : store[f] = cmd[p].pre[f]

\* C23 witness: the environment of a store holding every credential was
\* switched.
C23_Witness ==
    \E p \in Procs :
        /\ cmd[p].name = "config_set" /\ ~Truthy(cmd[p].apiKeyArg)
        /\ store.sandbox # cmd[p].pre.sandbox
        /\ \A f \in DOMAIN store \ {"sandbox"} : Truthy(cmd[p].pre[f])

\* C24: whenever no operation is under way, a stored userId comes with a
\* stored sessionToken.
C24_UserIdNeedsSession ==
    AllIdle => (Truthy(store.userId) => Truthy(store.sessionToken))

\* C24 witness: a rotation has emptied a store that held a userId and a
\* sessionToken.
C24_Witness ==
    \E p \in Procs :
        /\ cmd[p].name = "config_set" /\ Truthy(cmd[p].apiKeyArg)
        /\ Truthy(cmd[p].pre.userId) /\ Truthy(cmd[p].pre.sessionToken)
        /\ ~Truthy(store.userId)

\* C25: after a session response with a token entry has been processed,
\* the stored userId is the id of the principal that response names, and
\* there is none when the response names no principal.
C25_UserIdFromThisSession ==
    \A p \in Procs :
        \A i \in 1..Len(replies[p]) :
            (/\ sent[p][i].endpoint = SessionServerEndpoint
             /\ replies[p][i].status = 200
             /\ TokenEntries(replies[p][i].envelope) # {})
                => IF PrincipalEntries(replies[p][i].envelope) = {}
                   THEN ~Truthy(store.userId)
                   ELSE \E u \in PrincipalEntries(replies[p][i].envelope) :
                           store.userId = IdText(u)

\* C28: a stored installationToken comes with a stored key pair, and every
\* device-server and session-server request is signed.
C28_InstallationNeedsKeyPair ==
    /\ Truthy(store.installationToken)
          => (Truthy(store.privateKey) /\ Truthy(store.publicKey))
    /\ \A r \in AllSent :
          r.endpoint \in {DeviceServerEndpoint, SessionServerEndpoint}
              => (Truthy(r.config.privateKey) /\ r.signature # NoSignature)

\* C28 witness: a refresh sent its session-server request after a setup that
\* failed at device registration.
C28_Witness ==
    \E p \in Procs :
        /\ cmd[p].name = "auth_refresh" /\ Len(sent[p]) = 1
        /\ sent[p][1].endpoint = SessionServerEndpoint
        /\ ~Truthy(cmd[p].pre.sessionToken)
        /\ Truthy(cmd[p].pre.installationToken)

\* ------------------------------------------------------------------ concurrent callers' properties
\* The private keys under which session token t was established: those
\* that signed a session-server request answered with t.
EstablishedUnder(t) ==
    {r.signature[2] :
        r \in UNION {{sent[q][j] : j \in {i \in 1..Len(replies[q]) :
                                            /\ replies[q][i].status = 200
                                            /\ TokenEntries(replies[q][i].envelope) = {t}}} :
                     q \in Procs}
              \cap {r \in AllSent : r.endpoint = SessionServerEndpoint
                                     /\ r.signature # NoSignature}}

\* C26: a domain request sent while another process runs a full setup, and
\* carrying a session token, is signed with the private key under which
\* that session token was established.
C26_ConsistentSnapshot ==
    [][\A p \in Procs :
          (/\ pc[p] = "idle" /\ pc'[p] = "domain"
           /\ \E q \in Procs \ {p} : pc[q] # "idle" /\ cmd[q].name = "auth_setup"
           /\ Truthy(store.sessionToken)
           /\ sent'[p][1].auth = store.sessionToken
           /\ EstablishedUnder(store.sessionToken) # {})
              => /\ sent'[p][1].signature # NoSignature
                 /\ sent'[p][1].signature[2] \in EstablishedUnder(store.sessionToken)]_vars

\* The credentials of the store all come from the full setup p ran.
FromRun(p) ==
    /\ store.publicKey = sent[p][1].body.fields[1][2][2]
    /\ store.privateKey = sent[p][1].signature[2]
    /\ TokenEntries(replies[p][1].envelope) = {store.installationToken}
    /\ TokenEntries(replies[p][3].envelope) = {store.sessionToken}

\* C27: when two full setups that overlapped have both succeeded, the key
\* pair, installationToken and sessionToken in the store all come from one
\* of the two runs.
C27_OneRunWins ==
    (/\ AllIdle
     /\ \A p \in Procs :
           /\ cmd[p].name = "auth_setup" /\ outcome[p] = Ok
           /\ RunsFullSetup(p) /\ Len(replies[p]) = 3)
        => \E p \in Procs : FromRun(p)

\* ------------------------------------------------------------------ after a rotation
\* Every token and private key of the model.
CredentialValues ==
    {TokNames[i] : i \in 1..MaxTokens} \cup {PrivNames[i] : i \in 1..MaxKeyPairs}

\* A secret rotation has just completed and it deleted credential x from
\* the store (as a token or as the private key).
RotationDeleted(x) ==
    \E p \in Procs :
        /\ cmd[p].name = "config_set" /\ Truthy(cmd[p].apiKeyArg)
        /\ x \in {cmd[p].pre.sessionToken, cmd[p].pre.installationToken,
                  cmd[p].pre.privateKey}

\* Request r carries x as its authentication token or is signed with x.
Carries(r, x) ==
    \/ r.auth = x
    \/ r.signature # NoSignature /\ r.signature[2] = x

\* C29: from the completion of a rotation on, no request that is sent
\* carries a token the rotation deleted or is signed with the private key
\* it deleted; and a handshake command started when the last command was a
\* rotation first sends an installation request with a public key that was
\* never used before.
C29_RotationRevokes ==
    /\ \A x \in CredentialValues :
          [](RotationDeleted(x) => [](\A r \in AllSent : ~Carries(r, x)))
    /\ [][\A p \in Procs :
             (/\ cmd[p].name = "config_set" /\ Truthy(cmd[p].apiKeyArg)
              /\ cmd'[p].name \in HandshakeCommands
              /\ sent'[p] # <<>>)
                 => /\ sent'[p][1].endpoint = InstallationEndpoint
                    /\ sent'[p][1].body.fields[1][2][2] = store'.publicKey
                    /\ store'.publicKey # cmd[p].pre.publicKey
                    /\ \A i \in installedWith : i[2] # store'.publicKey]_vars

\* C29 witness: a refresh started from a store that holds a secret and no
\* credentials, after an earlier installation and session, has sent its
\* first request.
C29_Witness ==
    \E p \in Procs :
        /\ cmd[p].name = "auth_refresh" /\ sent[p] # <<>>
        /\ Truthy(cmd[p].pre.apiKey)
        /\ ~Truthy(cmd[p].pre.installationToken) /\ ~Truthy(cmd[p].pre.privateKey)
        /\ installedWith # {} /\ nTokens >= 2
====
